---- MODULE Spec2Model ----
(***************************************************************************)
(* Model of the MQTT hook pipeline of this repository:                     *)
(*   - DeduplicationHook (time-windowed duplicate suppression cache,       *)
(*     background sweep, SetConfig / GetStats),                            *)
(*   - IPInjectorHook (payload enrichment with the client's address),      *)
(*   - ConnectHook (connect / disconnect notifications sent by goroutines),*)
(*   - the hooks cmd/main.go adds to the server and their order, and the   *)
(*     shutdown of the process.                                            *)
(*                                                                         *)
(* Payloads are byte strings; they are modelled as sequences of JSON       *)
(* lexical tokens, so that parsing (json.Unmarshal), field extraction and  *)
(* encoding (json.Marshal of a json.RawMessage) are computed, not assumed. *)
(***************************************************************************)
EXTENDS Integers, Sequences, FiniteSets, Bags, TLC

(***************************************************************************)
(* JSON tokens.  k is the token kind, s the content of a string token,     *)
(* n/d the value of a number token as the fraction n/d (d > 0).            *)
(* Kind "bad" stands for bytes that begin no JSON token.                   *)
(***************************************************************************)
Tok(k) == [k |-> k, s |-> "", n |-> 0, d |-> 1]
Str(s) == [k |-> "str", s |-> s, n |-> 0, d |-> 1]
Num(n, d) == [k |-> "num", s |-> "", n |-> n, d |-> d]

LB == Tok("lb")
RB == Tok("rb")
COLON == Tok("colon")
COMMA == Tok("comma")
WS == Tok("ws")
NULL == Tok("null")
BAD == Tok("bad")

\* The empty map (a nil or empty map[string]interface{}).
EmptyMap == [x \in {} |-> NULL]

\* Index of the first token at or after i that is not whitespace.
RECURSIVE SkipWs(_, _)
SkipWs(s, i) ==
    IF i <= Len(s) /\ s[i].k = "ws" THEN SkipWs(s, i + 1) ELSE i

\* encoding/json scanner: index just after the JSON value that starts at or
\* after i, or 0 when the bytes there are not a JSON value.
RECURSIVE ScanValue(_, _), ScanMembers(_, _)
ScanValue(s, i) ==
    LET j == SkipWs(s, i) IN
    IF j > Len(s) THEN 0
    ELSE IF s[j].k \in {"str", "num", "null"} THEN j + 1
    ELSE IF s[j].k = "lb" THEN
        LET m == SkipWs(s, j + 1) IN
        IF m <= Len(s) /\ s[m].k = "rb" THEN m + 1 ELSE ScanMembers(s, m)
    ELSE 0

ScanMembers(s, i) ==
    LET j == SkipWs(s, i) IN
    IF j > Len(s) \/ s[j].k # "str" THEN 0
    ELSE LET c == SkipWs(s, j + 1) IN
         IF c > Len(s) \/ s[c].k # "colon" THEN 0
         ELSE LET e == ScanValue(s, c + 1) IN
              IF e = 0 THEN 0
              ELSE LET t == SkipWs(s, e) IN
                   IF t > Len(s) THEN 0
                   ELSE IF s[t].k = "rb" THEN t + 1
                   ELSE IF s[t].k = "comma" THEN ScanMembers(s, t + 1)
                   ELSE 0

\* json.Valid: the whole input is exactly one JSON value.
Valid(s) ==
    LET e == ScanValue(s, 1) IN e # 0 /\ SkipWs(s, e) = Len(s) + 1

\* The members of the (valid) object whose first key is at or after i,
\* decoded into a map; a later duplicate key overwrites an earlier one.
\* A member's value is represented by its first token.
RECURSIVE DecodeMembers(_, _, _)
DecodeMembers(s, i, acc) ==
    LET j == SkipWs(s, i) IN
    IF j > Len(s) \/ s[j].k # "str" THEN acc
    ELSE LET c == SkipWs(s, j + 1)
             v == SkipWs(s, c + 1)
             e == ScanValue(s, v)
             t == SkipWs(s, e)
             acc2 == (s[j].s :> s[v]) @@ acc
         IN IF t <= Len(s) /\ s[t].k = "comma"
            THEN DecodeMembers(s, t + 1, acc2)
            ELSE acc2

\* json.Unmarshal(payload, &msgData) with msgData a map[string]interface{}:
\* a syntax error, or a top-level value that is neither an object nor null,
\* is an error; null leaves the map nil.
Unmarshal(payload) ==
    IF ~Valid(payload) THEN [err |-> TRUE, data |-> EmptyMap]
    ELSE LET j == SkipWs(payload, 1) IN
         IF payload[j].k = "lb"
         THEN [err |-> FALSE, data |-> DecodeMembers(payload, j + 1, EmptyMap)]
         ELSE IF payload[j].k = "null"
         THEN [err |-> FALSE, data |-> EmptyMap]
         ELSE [err |-> TRUE, data |-> EmptyMap]

\* DeduplicationHook.extractString: the field as a string, and whether it is
\* present and a string.
extractStringAnyType(data, field) ==
    IF field \notin DOMAIN data THEN [v |-> "", ok |-> FALSE]
    ELSE [v |-> data[field].s, ok |-> TRUE]

extractString(data, field) ==
    IF field \notin DOMAIN data THEN [v |-> "", ok |-> FALSE]
    ELSE IF data[field].k # "str" THEN [v |-> "", ok |-> FALSE]
    ELSE [v |-> data[field].s, ok |-> TRUE]

\* Go's int64(v) of a float64 v = n/d: the fraction is discarded
\* (truncation toward zero).
Int64OfFloat(n, d) ==
    IF n >= 0 THEN n \div d ELSE -((-n) \div d)

\* DeduplicationHook.extractInt: JSON numbers decode as float64 and are
\* converted with int64(v); any other type, or an absent field, is (0, false).
extractInt(data, field) ==
    IF field \notin DOMAIN data THEN [v |-> 0, ok |-> FALSE]
    ELSE IF data[field].k = "num"
    THEN [v |-> Int64OfFloat(data[field].n, data[field].d), ok |-> TRUE]
    ELSE [v |-> 0, ok |-> FALSE]

(***************************************************************************)
(* encoding/json as IPInjectorHook uses it.                                *)
(***************************************************************************)
\* The encoder escapes <, > and & inside strings (escapeHTML is on for
\* json.Marshal).  "<u1>" is the one string of the model's inputs with such
\* characters.
EscapeHTML(s) ==
    IF s = "<u1>" THEN "\\u003cu1\\u003e" ELSE s

\* appendCompact: insignificant whitespace is dropped, strings are escaped.
RECURSIVE Compact(_)
Compact(s) ==
    IF s = <<>> THEN <<>>
    ELSE IF Head(s).k = "ws" THEN Compact(Tail(s))
    ELSE IF Head(s).k = "str"
    THEN <<Str(EscapeHTML(Head(s).s))>> \o Compact(Tail(s))
    ELSE <<Head(s)>> \o Compact(Tail(s))

\* An encoder that takes the payload for a document with whole numbers: a
\* fractional number is an error too.
MarshalRawWholeNumbers(raw) ==
    IF Valid(raw) /\ \A i \in DOMAIN raw : (raw[i].k = "num" => raw[i].d = 1)
    THEN [err |-> FALSE, bytes |-> Compact(raw)]
    ELSE [err |-> TRUE, bytes |-> <<>>]

\* The encoder's handling of the json.RawMessage field: the bytes returned
\* by RawMessage.MarshalJSON are validated and compacted; bytes that are
\* not one JSON value are a MarshalerError.  (A publish decoded from the
\* wire has a non-nil Payload, so an empty payload is empty bytes.)
MarshalRaw(raw) ==
    IF Valid(raw) THEN [err |-> FALSE, bytes |-> Compact(raw)]
    ELSE [err |-> TRUE, bytes |-> <<>>]

\* The document {"meta":{"ip":ip},"data":data} as bytes.
Envelope(ip, data) ==
    <<LB, Str("meta"), COLON, LB, Str("ip"), COLON, Str(ip), RB, COMMA,
      Str("data"), COLON>> \o data \o <<RB>>

\* json.Marshal(newPayload) in IPInjectorHook.OnPublish.
MarshalEnvelope(ip, payload) ==
    LET r == MarshalRaw(payload) IN
    IF r.err THEN [err |-> TRUE, bytes |-> <<>>]
    ELSE [err |-> FALSE, bytes |-> Envelope(ip, r.bytes)]

\* IPInjectorHook.targetTopic and isTargetTopic.
EnrichTopics == {"device/contact", "device/report/restart"}
isTargetTopic(topic) == topic \in EnrichTopics

(***************************************************************************)
(* Inputs and bounds.                                                      *)
(***************************************************************************)
\* Client connections; the broker runs one read loop per connection, so
\* each client has at most one publish inside the hook chain at a time.
Clients == {"c1", "c2"}

\* cl.Net.Remote of each client.
Remote(c) == IF c = "c1" THEN "10.0.0.1:1001" ELSE "10.0.0.2:1002"

\* A topic of inbound publishes that neither hook targets.
OtherTopic == "sys/other"

\* Payloads of inbound publishes, as bytes.
Payloads ==
    { <<LB, Str("uuid"), COLON, Str("u1"), COMMA, Str("count"), COLON, Num(1, 1), RB>>,
      <<LB, Str("uuid"), COLON, Str("u1"), COMMA, Str("count"), COLON, Num(0, 1), RB>>,
      <<LB, Str("uuid"), COLON, Str("u1"), COMMA, Str("count"), COLON, Num(1, 2), RB>>,
      <<LB, Str("uuid"), COLON, Str("u2"), RB>>,
      <<LB, Str("uuid"), COLON, Str("u1"), COMMA, Str("id"), COLON, Str("u2"),
        COMMA, Str("count"), COLON, Str("0"), RB>>,
      <<LB, Str("uuid"), COLON, Num(1, 1), COMMA, Str("count"), COLON, Num(0, 1), RB>>,
      <<LB, WS, RB>>,
      <<BAD>>,
      <<>>,
      <<Str("<u1>")>>,
      <<NULL>> }

\* Payloads of the publishes that race on the dedup topic: a normal report
\* and a restart report of device u1, and a report of device u2.
RacePayloads ==
    { <<LB, Str("uuid"), COLON, Str("u1"), COMMA, Str("count"), COLON, Num(1, 1), RB>>,
      <<LB, Str("uuid"), COLON, Str("u1"), COMMA, Str("count"), COLON, Num(0, 1), RB>>,
      <<LB, Str("uuid"), COLON, Str("u2"), RB>> }

\* Payloads of the reports in SpecLife: a normal and a restart report of
\* device u1.
LifePayloads ==
    { <<LB, Str("uuid"), COLON, Str("u1"), COMMA, Str("count"), COLON, Num(1, 1), RB>>,
      <<LB, Str("uuid"), COLON, Str("u1"), COMMA, Str("count"), COLON, Num(0, 1), RB>> }

\* json.Unmarshal of every input payload, tabulated.
Decoded == [p \in Payloads |-> Unmarshal(p)]

\* The enrichment of every input payload for every client, tabulated.
Enriched == [c \in Clients |-> [p \in Payloads |-> MarshalEnvelope(Remote(c), p)]]

\* Increments of the server clock between observations, in seconds.
TickSteps == {1, 20, 3600}

\* Increments of the server clock in SpecChain: inside the window, and up
\* to its upper end.
ChainTickSteps == {1, 20}

\* Number of clock increments in a behaviour of Spec.
MaxTicks == 2

\* Goroutines of ConnectHook running at one time.
MaxNotes == 2

\* Number of clock increments in a behaviour of SpecChain.
MaxChainTicks == 1

\* NewDeduplicationHook's configuration.
DefaultConfig ==
    [topic |-> "device/contact", uuidField |-> "uuid",
     timestampField |-> "timestamp", timeWindow |-> 20]

\* Arguments of SetConfig calls.
ConfigArgs ==
    { [topic |-> "device/report/restart", uuidField |-> "id",
       timestampField |-> "ts", timeWindow |-> 1],
      [topic |-> "", uuidField |-> "uuid",
       timestampField |-> "timestamp", timeWindow |-> -1] }

\* Seconds after which the sweep drops an entry.
ExpireSeconds == 3600

(***************************************************************************)
(* State.                                                                  *)
(***************************************************************************)
VARIABLES
    msgCache,        \* DeduplicationHook.msgCache: uuid -> last timestamp
    targetTopic,     \* DeduplicationHook.targetTopic
    timestampField,  \* DeduplicationHook.timestampField
    uuidField,       \* DeduplicationHook.uuidField
    countField,      \* DeduplicationHook.countField
    timeWindow,      \* DeduplicationHook.timeWindow
    mu,              \* DeduplicationHook.mu: "free" or its exclusive holder
    clock,           \* time.Now().Unix(), in seconds since the process started
    ticks,           \* clock increments so far
    fr,              \* per client: the publish inside the hook chain
    sc,              \* the SetConfig call in progress
    stats,           \* the map GetStats has just returned to its caller
    hooks,           \* IDs of the hooks added to the server with AddHook
    conn,            \* per client: the state of its connection
    notes,           \* goroutines started by ConnectHook, still running
    published,       \* notifications server.Publish has accepted
    phase            \* the process: "serving", "closed" or "exited"

\* The server, its clients and the notification goroutines.
lifeVars == <<hooks, conn, notes, published, phase>>

vars == <<msgCache, targetTopic, timestampField, uuidField, countField,
          timeWindow, mu, clock, ticks, fr, sc, stats, lifeVars>>

\* A client that has sent no publish yet.  A frame at "idle" with ret # 0
\* holds the outcome of the client's last publish, as returned to the broker.
\*   pc         position in the chain ("idle": no publish inside it)
\*   topic, payload   pk.TopicName, pk.Payload as the next hook sees them
\*   inPayload  the payload as received from the client
\*   deduped    the payload DeduplicationHook.OnPublish returned
\*   uuid, serverTime, lastTs, exists   locals of DeduplicationHook.OnPublish
\*   window     h.timeWindow as read at the duplicate check
\*   seenTopic, seenUuidField   h.targetTopic, h.uuidField as read
\*   ret        the line of the return statement OnPublish of the dedup hook
\*              took (0: none yet)
\*   err        the error the chain returns
IdleFrame ==
    [pc |-> "idle", topic |-> "", payload |-> <<>>, inPayload |-> <<>>,
     deduped |-> <<>>,
     uuid |-> "", serverTime |-> 0, lastTs |-> 0, exists |-> FALSE,
     window |-> 0, seenTopic |-> "", seenUuidField |-> "",
     ret |-> 0, err |-> "nil"]

IdleSetConfig ==
    [pc |-> "idle", topic |-> "", uuidField |-> "", timestampField |-> "",
     timeWindow |-> 0]

NoStats == [cache_size |-> 0, target_topic |-> "", time_window |-> 0]

\* The hooks main adds to the server, by ID, in the order of the AddHook
\* calls.  The two lines that add the ConnectHook are commented out.
HooksAdded == <<"auth-ledger", "deduplication", "ip-injector", "redis-db">>

\* ConnectHook.ID()
ConnectHookID == "client-connect"

\* The process has not exited: its goroutines run.
Alive == phase # "exited"

\* NewDeduplicationHook: the engine right after construction.
InitHook ==
    /\ msgCache = EmptyMap
    /\ targetTopic = DefaultConfig.topic
    /\ timestampField = DefaultConfig.timestampField
    /\ uuidField = DefaultConfig.uuidField
    /\ countField = "count"
    /\ timeWindow = DefaultConfig.timeWindow
    /\ mu = "free"
    /\ clock = 0
    /\ ticks = 0
    /\ fr = [c \in Clients |-> IdleFrame]
    /\ sc = IdleSetConfig
    /\ stats = NoStats

\* The server as main starts it, serving its clients.
Init ==
    /\ InitHook
    /\ hooks = HooksAdded
    /\ conn = [c \in Clients |-> "connected"]
    /\ notes = EmptyBag
    /\ published = {}
    /\ phase = "serving"

(***************************************************************************)
(* DeduplicationHook.                                                      *)
(***************************************************************************)
\* The value an unsynchronized read of a string field can yield when it
\* overlaps SetConfig's write of that field: the old value, the new one, or
\* a torn string (pointer and length from different values).
Torn == "?torn?"

RacyRead(cur, new, writing) ==
    IF writing THEN {cur, new, Torn} ELSE {cur}

\* pk.TopicName != h.targetTopic
IsOtherTopicNever(topicName, target) == FALSE

IsOtherTopic(topicName, target) == topicName # target

\* h.msgCache[uuid] = ts
CacheStore(cache, uuid, ts) == (uuid :> ts) @@ cache

\* The cache after a duplicate is rejected: the refresh is commented out.
RejectCacheRefresh(cache, uuid, ts) == (uuid :> ts) @@ cache

RejectCache(cache, uuid, ts) == cache

\* timeDiff >= 0 && timeDiff <= h.timeWindow
IsDuplicate(timeDiff, window) == timeDiff >= 0 /\ timeDiff <= window

\* exists && count == 0, for count = extractInt(msgData, h.countField)
IsRestartNegated(count) == count.ok /\ count.v # 0

IsRestart(count) == count.ok /\ count.v = 0

\* timestamp < expireThreshold
ExpiredReversed(timestamp, expireThreshold) == timestamp > expireThreshold

ExpiredInclusive(timestamp, expireThreshold) == timestamp <= expireThreshold

Expired(timestamp, expireThreshold) == timestamp < expireThreshold

\* IPInjectorHook.OnPublish on client c's publish, after which the chain
\* returns to the broker.  On a Marshal error the hook returns the error and
\* the dispatcher hands back the packet unchanged.
RunInjector(c, f) ==
    LET m == Enriched[c][f.payload] IN
    IF ~isTargetTopic(f.topic) THEN [f EXCEPT !.pc = "idle"]
    ELSE IF m.err THEN [f EXCEPT !.pc = "idle", !.err = "MarshalError"]
    ELSE [f EXCEPT !.pc = "idle", !.payload = m.bytes]

\* return pk, nil at the given line of DeduplicationHook.OnPublish.  The
\* hook registered after the dedup hook is the IP injector: the dispatcher
\* offers it the returned packet next.  The injector touches no shared
\* state, so its call is part of the same step.
PassThrough(c, f, line) ==
    RunInjector(c, [f EXCEPT !.ret = line, !.deduped = f.payload])

\* A rejection after which the dispatcher went on to the next hook, for the
\* client whose publish is at the duplicate check.
RejectThenNextHook(f, line) ==
    LET c == CHOOSE k \in Clients :
                fr[k].pc = "check" /\ fr[k].inPayload = f.inPayload
    IN [RunInjector(c, f) EXCEPT !.ret = line, !.err = "ErrRejectPacket"]

\* return pk, packets.ErrRejectPacket: the dispatcher stops the chain and
\* returns to the broker.
Reject(f, line) ==
    [f EXCEPT !.pc = "idle", !.ret = line, !.err = "ErrRejectPacket"]

\* The client's next publish arrives and the dispatcher calls
\* DeduplicationHook.OnPublish: the topic is compared with h.targetTopic
\* (read without the lock).
OnPublishEnter(c, topic, payload) ==
    /\ Alive
    /\ fr[c].pc = "idle"
    /\ \E t \in RacyRead(targetTopic, sc.topic, sc.pc = "w_topic") :
        LET f == [IdleFrame EXCEPT !.topic = topic, !.payload = payload,
                                   !.inPayload = payload, !.seenTopic = t]
        IN fr' = [fr EXCEPT ![c] =
                    IF IsOtherTopic(topic, t) THEN PassThrough(c, f, 67)
                    ELSE [f EXCEPT !.pc = "parse"]]
    /\ UNCHANGED <<msgCache, targetTopic, timestampField, uuidField,
                   countField, timeWindow, mu, clock, ticks, sc>>
    /\ stats' = NoStats
    /\ UNCHANGED lifeVars

\* json.Unmarshal, extractString with h.uuidField (read without the lock),
\* extractInt with h.countField.
DedupParse(c) ==
    /\ Alive
    /\ fr[c].pc = "parse"
    /\ LET f == fr[c]
           u == Decoded[f.payload]
       IN IF u.err THEN fr' = [fr EXCEPT ![c] = PassThrough(c, f, 75)]
          ELSE \E field \in RacyRead(uuidField, sc.uuidField, sc.pc = "w_uuid") :
                LET id == extractString(u.data, field)
                    count == extractInt(u.data, countField)
                    g == [f EXCEPT !.seenUuidField = field]
                IN fr' = [fr EXCEPT ![c] =
                            IF ~id.ok THEN PassThrough(c, g, 83)
                            ELSE IF IsRestart(count)
                            THEN [g EXCEPT !.uuid = id.v, !.pc = "reset"]
                            ELSE [g EXCEPT !.uuid = id.v, !.pc = "now"]]
    /\ UNCHANGED <<msgCache, targetTopic, timestampField, uuidField,
                   countField, timeWindow, mu, clock, ticks, sc>>
    /\ stats' = NoStats
    /\ UNCHANGED lifeVars

\* The count-0 path: Lock; h.msgCache[uuid] = time.Now().Unix(); Unlock.
DedupReset(c) ==
    /\ Alive
    /\ fr[c].pc = "reset"
    /\ mu = "free"
    /\ msgCache' = CacheStore(msgCache, fr[c].uuid, clock)
    /\ fr' = [fr EXCEPT ![c] = PassThrough(c, [@ EXCEPT !.serverTime = clock], 93)]
    /\ UNCHANGED <<targetTopic, timestampField, uuidField, countField,
                   timeWindow, mu, clock, ticks, sc>>
    /\ stats' = NoStats
    /\ UNCHANGED lifeVars

\* serverTime := time.Now().Unix(), before the lock is taken.
DedupReadTime(c) ==
    /\ Alive
    /\ fr[c].pc = "now"
    /\ fr' = [fr EXCEPT ![c] = [@ EXCEPT !.serverTime = clock, !.pc = "check"]]
    /\ UNCHANGED <<msgCache, targetTopic, timestampField, uuidField,
                   countField, timeWindow, mu, clock, ticks, sc>>
    /\ stats' = NoStats
    /\ UNCHANGED lifeVars

\* Lock; the duplicate check against h.msgCache and h.timeWindow; the cache
\* write when the publish is not a duplicate; Unlock (deferred).
DedupCheck(c) ==
    /\ Alive
    /\ fr[c].pc = "check"
    /\ mu = "free"
    /\ LET f == fr[c]
           exists == f.uuid \in DOMAIN msgCache
           lastTs == IF exists THEN msgCache[f.uuid] ELSE 0
           g == [f EXCEPT !.exists = exists, !.lastTs = lastTs,
                          !.window = timeWindow]
       IN IF exists /\ IsDuplicate(f.serverTime - lastTs, timeWindow)
          THEN /\ msgCache' = RejectCache(msgCache, f.uuid, f.serverTime)
               /\ fr' = [fr EXCEPT ![c] = Reject(g, 111)]
          ELSE /\ msgCache' = CacheStore(msgCache, f.uuid, f.serverTime)
               /\ fr' = [fr EXCEPT ![c] = PassThrough(c, g, 116)]
    /\ UNCHANGED <<targetTopic, timestampField, uuidField, countField,
                   timeWindow, mu, clock, ticks, sc>>
    /\ stats' = NoStats
    /\ UNCHANGED lifeVars

\* cleanExpiredCache, run by startCleanupTask on every tick of its ticker:
\* under the lock, every entry older than one hour is deleted.
CleanExpiredCache ==
    /\ Alive
    /\ mu = "free"
    /\ LET now == clock
           expireThreshold == now - ExpireSeconds
           keep == {u \in DOMAIN msgCache : ~Expired(msgCache[u], expireThreshold)}
       IN msgCache' = [u \in keep |-> msgCache[u]]
    /\ UNCHANGED <<targetTopic, timestampField, uuidField, countField,
                   timeWindow, mu, clock, ticks, fr, sc>>
    /\ stats' = NoStats
    /\ UNCHANGED lifeVars

\* GetStats: under the read lock.  The returned map is handed to the caller:
\* stats holds it until the next step of the system.
GetStats ==
    /\ Alive
    /\ mu = "free"
    /\ stats' = [cache_size |-> Cardinality(DOMAIN msgCache),
                 target_topic |-> targetTopic, time_window |-> timeWindow]
    /\ UNCHANGED <<msgCache, targetTopic, timestampField, uuidField,
                   countField, timeWindow, mu, clock, ticks, fr, sc>>
    /\ UNCHANGED lifeVars

\* SetConfig: Lock, then the four assignments in order, then Unlock.
SetConfigLock(a) ==
    /\ Alive
    /\ sc.pc = "idle"
    /\ mu = "free"
    /\ mu' = "SetConfig"
    /\ sc' = [pc |-> "w_topic", topic |-> a.topic, uuidField |-> a.uuidField,
              timestampField |-> a.timestampField, timeWindow |-> a.timeWindow]
    /\ UNCHANGED <<msgCache, targetTopic, timestampField, uuidField,
                   countField, timeWindow, clock, ticks, fr>>
    /\ stats' = NoStats
    /\ UNCHANGED lifeVars

SetConfigTopic ==
    /\ Alive
    /\ sc.pc = "w_topic"
    /\ targetTopic' = sc.topic
    /\ sc' = [sc EXCEPT !.pc = "w_uuid"]
    /\ UNCHANGED <<msgCache, timestampField, uuidField, countField,
                   timeWindow, mu, clock, ticks, fr>>
    /\ stats' = NoStats
    /\ UNCHANGED lifeVars

SetConfigUuidField ==
    /\ Alive
    /\ sc.pc = "w_uuid"
    /\ uuidField' = sc.uuidField
    /\ sc' = [sc EXCEPT !.pc = "w_ts"]
    /\ UNCHANGED <<msgCache, targetTopic, timestampField, countField,
                   timeWindow, mu, clock, ticks, fr>>
    /\ stats' = NoStats
    /\ UNCHANGED lifeVars

SetConfigTimestampField ==
    /\ Alive
    /\ sc.pc = "w_ts"
    /\ timestampField' = sc.timestampField
    /\ sc' = [sc EXCEPT !.pc = "w_window"]
    /\ UNCHANGED <<msgCache, targetTopic, uuidField, countField,
                   timeWindow, mu, clock, ticks, fr>>
    /\ stats' = NoStats
    /\ UNCHANGED lifeVars

\* The last assignment and the deferred Unlock, had SetConfig started the
\* new configuration with an empty cache.
SetConfigWindowClearsCache ==
    /\ Alive
    /\ sc.pc = "w_window"
    /\ timeWindow' = sc.timeWindow
    /\ msgCache' = EmptyMap
    /\ sc' = IdleSetConfig
    /\ mu' = "free"
    /\ UNCHANGED <<targetTopic, timestampField, uuidField,
                   countField, clock, ticks, fr>>
    /\ stats' = NoStats
    /\ UNCHANGED lifeVars

SetConfigWindow ==
    /\ Alive
    /\ sc.pc = "w_window"
    /\ timeWindow' = sc.timeWindow
    /\ sc' = IdleSetConfig
    /\ mu' = "free"
    /\ UNCHANGED <<msgCache, targetTopic, timestampField, uuidField,
                   countField, clock, ticks, fr>>
    /\ stats' = NoStats
    /\ UNCHANGED lifeVars

\* The server clock advances.
Tick(d, max) ==
    /\ ticks < max
    /\ clock' = clock + d
    /\ ticks' = ticks + 1
    /\ UNCHANGED <<msgCache, targetTopic, timestampField, uuidField,
                   countField, timeWindow, mu, fr, sc>>
    /\ stats' = NoStats
    /\ UNCHANGED lifeVars

(***************************************************************************)
(* ConnectHook, the connection events and the process.                     *)
(***************************************************************************)
\* The hook with the given ID has been added to the server.
HasHook(id) == \E i \in DOMAIN hooks : hooks[i] = id

\* "{\"uuid\":\"" + cl.ID + "\",\"ip\":\"" + message + "\"}"
ConnectMessage(c) ==
    <<LB, Str("uuid"), COLON, Str(c), COMMA, Str("ip"), COLON, Str(Remote(c)), RB>>

\* "{\"uuid\":\"" + cl.ID + "\"}"
DisconnectMessage(c) == <<LB, Str("uuid"), COLON, Str(c), RB>>

\* What becomes of a call of h.server.Publish made by a goroutine: it
\* returns nil, it returns an error, or it does not return.
PublishFates == {"ok", "error", "hang"}

\* go func() { h.server.Publish(topic, []byte(message), false, 0) }()
Goroutine(topic, message, fate) ==
    [topic |-> topic, message |-> message, fate |-> fate]

\* The value OnConnect returns: the goroutine's call of Publish has no
\* part in it.
OnConnectReturnsPublishError(fate) == IF fate = "ok" THEN "nil" ELSE fate

OnConnectReturn(fate) == "nil"

\* A client connects while the server serves: the dispatcher calls
\* OnConnect of every hook added that provides it, and refuses the client
\* if one returns an error.  ConnectHook.OnConnect builds the message,
\* starts the goroutine that publishes it and returns.
ClientConnect(c) ==
    /\ phase = "serving"
    /\ conn[c] = "none"
    /\ IF HasHook(ConnectHookID)
       THEN /\ BagCardinality(notes) < MaxNotes
            /\ \E fate \in PublishFates :
                /\ notes' = notes (+) SetToBag(
                        {Goroutine("sys/connect", ConnectMessage(c), fate)})
                /\ conn' = [conn EXCEPT ![c] =
                        IF OnConnectReturn(fate) = "nil" THEN "connected"
                        ELSE "refused"]
       ELSE /\ notes' = notes
            /\ conn' = [conn EXCEPT ![c] = "connected"]
    /\ UNCHANGED <<msgCache, targetTopic, timestampField, uuidField,
                   countField, timeWindow, mu, clock, ticks, fr, sc,
                   hooks, published, phase>>
    /\ stats' = NoStats

\* A client's connection ends: the dispatcher calls OnDisconnect of every
\* hook added that provides it.  ConnectHook.OnDisconnect builds the message,
\* starts the goroutine that publishes it and returns.
ClientDisconnect(c) ==
    /\ Alive
    /\ conn[c] = "connected"
    /\ fr[c].pc = "idle"
    /\ IF HasHook(ConnectHookID)
       THEN /\ BagCardinality(notes) < MaxNotes
            /\ \E fate \in PublishFates :
                notes' = notes (+) SetToBag(
                    {Goroutine("sys/disconnect", DisconnectMessage(c), fate)})
       ELSE notes' = notes
    /\ conn' = [conn EXCEPT ![c] = "none"]
    /\ UNCHANGED <<msgCache, targetTopic, timestampField, uuidField,
                   countField, timeWindow, mu, clock, ticks, fr, sc,
                   hooks, published, phase>>
    /\ stats' = NoStats

\* A goroutine's call of h.server.Publish returns nil: the notification is
\* on its topic.  The goroutine ends.
NotifyPublish(g) ==
    /\ Alive
    /\ BagIn(g, notes)
    /\ g.fate = "ok"
    /\ notes' = notes (-) SetToBag({g})
    /\ published' = published \cup {[topic |-> g.topic, message |-> g.message]}
    /\ UNCHANGED <<msgCache, targetTopic, timestampField, uuidField,
                   countField, timeWindow, mu, clock, ticks, fr, sc,
                   hooks, conn, phase>>
    /\ stats' = NoStats

\* A goroutine's call of h.server.Publish returns an error, which the
\* goroutine drops.  The goroutine ends.
NotifyFail(g) ==
    /\ Alive
    /\ BagIn(g, notes)
    /\ g.fate = "error"
    /\ notes' = notes (-) SetToBag({g})
    /\ UNCHANGED <<msgCache, targetTopic, timestampField, uuidField,
                   countField, timeWindow, mu, clock, ticks, fr, sc,
                   hooks, conn, published, phase>>
    /\ stats' = NoStats

\* A publish of a connected client arrives while the server serves.
ClientPublish(c, topic, payload) ==
    /\ phase = "serving"
    /\ conn[c] = "connected"
    /\ OnPublishEnter(c, topic, payload)

\* main receives the signal and calls server.Close().  DeduplicationHook
\* has no Stop method of its own and startCleanupTask takes no signal to
\* return: the goroutine of the sweep goes on.
Close ==
    /\ phase = "serving"
    /\ phase' = "closed"
    /\ UNCHANGED <<msgCache, targetTopic, timestampField, uuidField,
                   countField, timeWindow, mu, clock, ticks, fr, sc,
                   hooks, conn, notes, published>>
    /\ stats' = NoStats

\* main returns and the process exits, with every goroutine still running.
Exit ==
    /\ phase = "closed"
    /\ phase' = "exited"
    /\ UNCHANGED <<msgCache, targetTopic, timestampField, uuidField,
                   countField, timeWindow, mu, clock, ticks, fr, sc,
                   hooks, conn, notes, published>>
    /\ stats' = NoStats

\* The engine under concurrent load with the configuration of
\* NewDeduplicationHook: both clients publish on the dedup topic while the
\* sweep, GetStats and the clock run.
Next ==
    \/ \E c \in Clients, payload \in RacePayloads :
            OnPublishEnter(c, "device/contact", payload)
    \/ \E c \in Clients : DedupParse(c)
    \/ \E c \in Clients : DedupReset(c)
    \/ \E c \in Clients : DedupReadTime(c)
    \/ \E c \in Clients : DedupCheck(c)
    \/ CleanExpiredCache
    \/ GetStats
    \/ \E d \in TickSteps : Tick(d, MaxTicks)

Spec == Init /\ [][Next]_vars

\* One client sending every payload on the two enrichment topics, and the
\* device reports on a topic neither hook targets, through the hook chain,
\* while the sweep, SetConfig, GetStats and the clock run.
NextChain ==
    \/ \E topic \in EnrichTopics, payload \in Payloads :
            OnPublishEnter("c1", topic, payload)
    \/ \E payload \in RacePayloads : OnPublishEnter("c1", OtherTopic, payload)
    \/ DedupParse("c1")
    \/ DedupReset("c1")
    \/ DedupReadTime("c1")
    \/ DedupCheck("c1")
    \/ CleanExpiredCache
    \/ GetStats
    \/ \E a \in ConfigArgs : SetConfigLock(a)
    \/ SetConfigTopic
    \/ SetConfigUuidField
    \/ SetConfigTimestampField
    \/ SetConfigWindow
    \/ \E d \in ChainTickSteps : Tick(d, MaxChainTicks)

SpecChain == Init /\ [][NextChain]_vars

\* The server as main starts it, before any client has connected.
InitLife ==
    /\ InitHook
    /\ hooks = HooksAdded
    /\ conn = [c \in Clients |-> "none"]
    /\ notes = EmptyBag
    /\ published = {}
    /\ phase = "serving"

\* The life of the process as main wires it: clients connect, report on
\* the dedup topic and disconnect, the sweep and the clock run, and main
\* closes the server and returns.
NextLife ==
    \/ \E c \in Clients : ClientConnect(c)
    \/ \E c \in Clients : ClientDisconnect(c)
    \/ \E payload \in LifePayloads : ClientPublish("c1", "device/contact", payload)
    \/ DedupParse("c1")
    \/ DedupReset("c1")
    \/ DedupReadTime("c1")
    \/ DedupCheck("c1")
    \/ CleanExpiredCache
    \/ \E d \in TickSteps : Tick(d, MaxTicks)
    \/ Close
    \/ Exit

SpecLife == InitLife /\ [][NextLife]_vars

\* SpecLife with the cleanup ticker firing for as long as the process runs:
\* startCleanupTask calls cleanExpiredCache on every tick of a ticker it
\* never stops, and the lock it waits for is always released.
SpecSweep == SpecLife /\ WF_vars(CleanExpiredCache)

\* A server to which the ConnectHook has been added after the hooks of main.
InitNotifier ==
    /\ InitHook
    /\ hooks = Append(HooksAdded, ConnectHookID)
    /\ conn = [c \in Clients |-> "none"]
    /\ notes = EmptyBag
    /\ published = {}
    /\ phase = "serving"

\* The ConnectHook at work: clients connect and disconnect, and the
\* goroutines it starts publish, fail or hang.
NextNotifier ==
    \/ \E c \in Clients : ClientConnect(c)
    \/ \E c \in Clients : ClientDisconnect(c)
    \/ \E g \in BagToSet(notes) : NotifyPublish(g)
    \/ \E g \in BagToSet(notes) : NotifyFail(g)
    \/ Close
    \/ Exit

SpecNotifier == InitNotifier /\ [][NextNotifier]_vars

(***************************************************************************)
(* Properties.                                                             *)
(***************************************************************************)
\* The count field of a payload as the client wrote it.
RawCount(payload) ==
    LET u == Decoded[payload] IN
    IF ~u.err /\ "count" \in DOMAIN u.data THEN u.data["count"] ELSE NULL

\* The payload's count field is a JSON number equal to 0.
CountIsZero(payload) ==
    RawCount(payload).k = "num" /\ RawCount(payload).n = 0

\* The payload is a JSON object whose member `field` is a string.
HasStringField(payload, field) ==
    LET u == Decoded[payload] IN
    ~u.err /\ field \in DOMAIN u.data /\ u.data[field].k = "str"

\* Client c's dedup hook classifies its publish in this step: it leaves
\* the reset path or the duplicate check.
Decides(c) ==
    fr[c].pc \in {"reset", "check"} /\ fr'[c].pc \notin {"reset", "check"}

\* C1: every target-topic publish with a string origin identifier X whose
\* count field is not 0 is decided by the window rule: with cache[X] = s and
\* server time now it is rejected when 0 <= now - s <= timeWindow, and
\* otherwise (no entry, now - s > timeWindow, now - s < 0) accepted with
\* cache[X] set to now.
C1_NonZeroCountFollowsWindowRule ==
    [][\A c \in Clients :
        (Decides(c) /\ ~CountIsZero(fr[c].inPayload)) =>
            LET X == fr[c].uuid
                now == fr'[c].serverTime
            IN IF X \in DOMAIN msgCache /\ 0 <= now - msgCache[X]
                    /\ now - msgCache[X] <= timeWindow
               THEN fr'[c].err = "ErrRejectPacket"
               ELSE /\ fr'[c].err # "ErrRejectPacket"
                    /\ X \in DOMAIN msgCache'
                    /\ msgCache'[X] = now]_vars

\* C2: a target-topic publish with a string origin identifier X and a count
\* field equal to 0 never reaches the window check; it is accepted whatever
\* the cache holds, and after it cache[X] is the server time of the step
\* that handled it.
C2_ZeroCountAlwaysAccepted ==
    [][\A c \in Clients :
        /\ (fr[c].pc = "parse" /\ fr'[c].pc \in {"reset", "now"}
                /\ CountIsZero(fr[c].inPayload)) => fr'[c].pc = "reset"
        /\ (Decides(c) /\ CountIsZero(fr[c].inPayload)) =>
                /\ fr'[c].ret = 93
                /\ fr'[c].err # "ErrRejectPacket"
                /\ fr'[c].deduped = fr[c].inPayload
                /\ fr[c].uuid \in DOMAIN msgCache'
                /\ msgCache'[fr[c].uuid] = clock]_vars

\* A restart report (count 0) of a device was accepted and reset the entry
\* although the other client's report of the same device had been accepted
\* less than a window earlier.
C2_Witness ==
    \E c \in Clients, o \in Clients :
        /\ c # o
        /\ fr[c].ret = 93 /\ CountIsZero(fr[c].inPayload)
        /\ fr[c].err # "ErrRejectPacket"
        /\ fr[o].ret = 116 /\ fr[o].uuid = fr[c].uuid
        /\ fr[c].serverTime - fr[o].serverTime > 0
        /\ fr[c].serverTime - fr[o].serverTime <= timeWindow
        /\ msgCache[fr[c].uuid] = fr[c].serverTime

\* C3: a publish rejected as a duplicate leaves the whole cache unchanged;
\* and a publish that reaches the check with a server time more than
\* timeWindow after the stored timestamp is accepted and stores its time.
C3_RejectLeavesCacheUnchanged ==
    [][\A c \in Clients :
        /\ (Decides(c) /\ fr'[c].err = "ErrRejectPacket") => msgCache' = msgCache
        /\ (fr[c].pc = "check" /\ fr'[c].pc # "check"
                /\ fr[c].uuid \in DOMAIN msgCache
                /\ fr[c].serverTime - msgCache[fr[c].uuid] > timeWindow) =>
                /\ fr'[c].err # "ErrRejectPacket"
                /\ msgCache'[fr[c].uuid] = fr[c].serverTime]_vars

\* One client's report was rejected as a duplicate of the entry stored at
\* s, and the other client's later report, more than a window after s, found
\* the same s in the cache and was accepted.
C3_Witness ==
    \E c \in Clients, o \in Clients :
        /\ c # o
        /\ fr[c].ret = 111 /\ fr[c].err = "ErrRejectPacket"
        /\ fr[c].serverTime > fr[c].lastTs
        /\ fr[o].ret = 116 /\ fr[o].uuid = fr[c].uuid
        /\ fr[o].exists /\ fr[o].lastTs = fr[c].lastTs
        /\ fr[o].serverTime > fr[c].serverTime
        /\ fr[o].serverTime - fr[o].lastTs > fr[o].window
        /\ msgCache[fr[o].uuid] = fr[o].serverTime

\* C4: a publish whose topic differs from the configured target topic (the
\* current one and, while SetConfig is writing the topic, the new one) is
\* returned by the dedup hook at once with the same payload and no
\* rejection, and the cache is the same before and after.
C4_OtherTopicUntouched ==
    [][\A c \in Clients :
        (/\ fr[c].pc = "idle" /\ fr'[c] # fr[c]
         /\ fr'[c].topic # targetTopic
         /\ (sc.pc = "w_topic" => fr'[c].topic # sc.topic)) =>
            /\ fr'[c].pc = "idle"
            /\ fr'[c].ret = 67
            /\ fr'[c].err # "ErrRejectPacket"
            /\ fr'[c].deduped = fr'[c].inPayload
            /\ msgCache' = msgCache]_vars

\* A report of a device whose entry is inside the window went out on
\* another topic and left the dedup hook unrejected and unmodified.
C4_Witness ==
    \E c \in Clients :
        /\ fr[c].pc = "idle" /\ fr[c].ret = 67 /\ fr[c].err # "ErrRejectPacket"
        /\ fr[c].topic # targetTopic /\ sc.pc = "idle"
        /\ fr[c].deduped = fr[c].inPayload
        /\ HasStringField(fr[c].inPayload, uuidField)
        /\ ~CountIsZero(fr[c].inPayload)
        /\ LET X == extractString(Decoded[fr[c].inPayload].data, uuidField).v
           IN /\ X \in DOMAIN msgCache
              /\ clock - msgCache[X] >= 0
              /\ clock - msgCache[X] <= timeWindow

\* C5: a target-topic publish whose payload is not a JSON object, or whose
\* origin-identifier field (the configured one and, while SetConfig is
\* writing the field name, the new one) is absent or not a string, leaves
\* the dedup hook with its payload unmodified and without rejection, and no
\* step of the dedup hook for it changes the cache.
C5_MalformedPassesThrough ==
    [][\A c \in Clients :
        /\ (fr[c].pc = "idle" /\ fr'[c].pc = "parse") =>
                /\ msgCache' = msgCache
                /\ fr'[c].payload = fr'[c].inPayload
        /\ (/\ fr[c].pc = "parse" /\ fr'[c].pc # "parse"
            /\ ~HasStringField(fr[c].payload, uuidField)
            /\ (sc.pc = "w_uuid" => ~HasStringField(fr[c].payload, sc.uuidField))) =>
                /\ fr'[c].pc = "idle"
                /\ fr'[c].ret \in {75, 83}
                /\ fr'[c].err # "ErrRejectPacket"
                /\ fr'[c].deduped = fr[c].inPayload
                /\ msgCache' = msgCache]_vars

\* A target-topic publish whose origin-identifier field is present but not
\* a string has passed the dedup hook, with entries in the cache.
C5_Witness ==
    \E c \in Clients :
        /\ fr[c].pc = "idle" /\ fr[c].ret = 83 /\ fr[c].err # "ErrRejectPacket"
        /\ fr[c].topic = targetTopic /\ sc.pc = "idle"
        /\ fr[c].deduped = fr[c].inPayload
        /\ ~Decoded[fr[c].inPayload].err
        /\ uuidField \in DOMAIN Decoded[fr[c].inPayload].data
        /\ msgCache # EmptyMap

\* C6: for every publish the enrichment filter has handled, the output
\* payload on an enrichment topic is the document
\* {meta:{ip: remote address}, data: the original payload bytes} and on any
\* other topic it is the input payload; no error is returned.
C6_EnrichmentOutput ==
    \A c \in Clients :
        (fr[c].pc = "idle" /\ fr[c].ret # 0 /\ fr[c].err # "ErrRejectPacket") =>
            /\ fr[c].err = "nil"
            /\ fr[c].payload =
                 IF fr[c].topic \in {"device/contact", "device/report/restart"}
                 THEN Envelope(Remote(c), fr[c].inPayload)
                 ELSE fr[c].inPayload

\* C7: enrichment of a publish on an enrichment topic returns no error,
\* whatever the payload.
C7_EnrichmentNeverFails ==
    \A c \in Clients :
        (fr[c].pc = "idle" /\ fr[c].ret # 0
            /\ fr[c].topic \in {"device/contact", "device/report/restart"}) =>
                fr[c].err # "MarshalError"

\* C8: one sweep at server time now removes exactly the entries whose
\* timestamp is strictly less than now - 3600; every other entry stays,
\* with its timestamp.
C8_SweepRemovesExactlyExpired ==
    [][CleanExpiredCache =>
        /\ DOMAIN msgCache' =
              {u \in DOMAIN msgCache : msgCache[u] >= clock - 3600}
        /\ \A u \in DOMAIN msgCache' : msgCache'[u] = msgCache[u]]_vars

\* One client's accepted publish stored an entry more than 3600 seconds
\* ago and the entry is gone, while the entry the other client stored
\* exactly 3600 seconds ago is still there.
C8_Witness ==
    \E c \in Clients, o \in Clients :
        /\ c # o
        /\ fr[o].ret \in {93, 116}
        /\ fr[o].serverTime < clock - 3600
        /\ fr[o].uuid \notin DOMAIN msgCache
        /\ fr[c].ret \in {93, 116}
        /\ fr[c].uuid \in DOMAIN msgCache
        /\ fr[c].serverTime = clock - 3600
        /\ msgCache[fr[c].uuid] = clock - 3600

\* C9: of two concurrent non-zero-count publishes for the same origin
\* identifier whose server times lie within timeWindow of each other, only
\* one is accepted.
C9_OnlyOneWins ==
    \A c \in Clients, o \in Clients :
        (/\ c # o
         /\ fr[c].ret \in {111, 116} /\ fr[o].ret \in {111, 116}
         /\ fr[c].uuid = fr[o].uuid
         /\ fr[c].serverTime - fr[o].serverTime >= 0
         /\ fr[c].serverTime - fr[o].serverTime <= timeWindow) =>
            ~(fr[c].ret = 116 /\ fr[o].ret = 116)

\* C10: every publish is classified against one configuration: the target
\* topic and the origin-identifier field name it read belong to the same
\* configuration (both the old one or both the new one), as they do when
\* OnPublish's reads exclude SetConfig's writes.
C10_OneConfigurationPerPublish ==
    \A c \in Clients :
        (fr[c].pc \in {"reset", "now", "check"} \/ fr[c].ret \in {83, 93, 111, 116}) =>
            \E cfg \in {DefaultConfig} \cup ConfigArgs :
                /\ cfg.topic = fr[c].seenTopic
                /\ cfg.uuidField = fr[c].seenUuidField

\* C11: SetConfig writes the target topic, the two field names and the time
\* window between one Lock and its Unlock: the lock is free when the call
\* takes it, held at every step of the call, and released with the four
\* fields equal to the arguments.  No step taken while the call runs changes
\* the cache, whatever the arguments.
C11_SetConfigReplacesUnderLock ==
    [][/\ (sc.pc = "idle" /\ sc'.pc # "idle") => (mu = "free" /\ mu' = "SetConfig")
       /\ (sc.pc # "idle" \/ sc'.pc # "idle") => msgCache' = msgCache
       /\ (sc.pc # "idle" /\ sc'.pc # "idle") => (mu = "SetConfig" /\ mu' = "SetConfig")
       /\ (sc.pc # "idle" /\ sc'.pc = "idle") =>
            /\ targetTopic' = sc.topic
            /\ uuidField' = sc.uuidField
            /\ timestampField' = sc.timestampField
            /\ timeWindow' = sc.timeWindow
            /\ mu' = "free"]_vars

\* SetConfig has returned after setting an empty topic and a negative
\* window, and the entries stored before it are in the cache.
C11_Witness ==
    /\ sc.pc = "idle" /\ mu = "free"
    /\ targetTopic = "" /\ timeWindow = -1
    /\ msgCache # EmptyMap

\* C12: the dedup hook is called first and with the payload as the client
\* sent it; a payload is enriched only after the dedup hook has returned it
\* unchanged and without rejection; a rejected publish is never enriched.
C12_DedupBeforeEnrichment ==
    \A c \in Clients :
        /\ fr[c].pc \in {"parse", "reset", "now", "check"} =>
                fr[c].payload = fr[c].inPayload
        /\ fr[c].err = "ErrRejectPacket" =>
                (fr[c].ret = 111 /\ fr[c].payload = fr[c].inPayload)
        /\ fr[c].payload # fr[c].inPayload =>
                /\ fr[c].pc = "idle"
                /\ fr[c].ret \in {67, 75, 83, 93, 116}
                /\ fr[c].err = "nil"
                /\ fr[c].deduped = fr[c].inPayload
                /\ isTargetTopic(fr[c].topic)

\* A duplicate on an enrichment topic, with a payload the enrichment filter
\* would have wrapped, was rejected and returned as the client sent it.
C12_Witness ==
    \E c \in Clients :
        /\ fr[c].err = "ErrRejectPacket"
        /\ isTargetTopic(fr[c].topic)
        /\ ~Enriched[c][fr[c].inPayload].err
        /\ Enriched[c][fr[c].inPayload].bytes # fr[c].inPayload
        /\ fr[c].payload = fr[c].inPayload

\* C13: every connect event starts one publish on "sys/connect" of the
\* client's identifier and remote address, and every disconnect event starts
\* one publish on "sys/disconnect" of the identifier alone.
C13_EventsAreAnnounced ==
    [][\A c \in Clients :
        /\ (conn[c] = "none" /\ conn'[c] = "connected") =>
                \E fate \in PublishFates :
                    notes' = notes (+) SetToBag(
                        {Goroutine("sys/connect", ConnectMessage(c), fate)})
        /\ (conn[c] = "connected" /\ conn'[c] = "none") =>
                \E fate \in PublishFates :
                    notes' = notes (+) SetToBag(
                        {Goroutine("sys/disconnect", DisconnectMessage(c), fate)})]_vars

\* C14: OnConnect starts its goroutine and returns nil, so the client is
\* connected whatever becomes of the publish; OnDisconnect starts its
\* goroutine and returns; and the end of a goroutine, with the publish done
\* or failed, changes no connection.
C14_LifecycleIgnoresNotification ==
    [][\A c \in Clients :
        /\ (\E fate \in PublishFates :
                notes' = notes (+) SetToBag(
                    {Goroutine("sys/connect", ConnectMessage(c), fate)})) =>
                (conn[c] = "none" /\ conn'[c] = "connected")
        /\ (\E fate \in PublishFates :
                notes' = notes (+) SetToBag(
                    {Goroutine("sys/disconnect", DisconnectMessage(c), fate)})) =>
                (conn[c] = "connected" /\ conn'[c] = "none")
        /\ BagCardinality(notes') < BagCardinality(notes) => conn' = conn]_vars

\* One client is connected while the publish of its connect notification
\* hangs, and the other has disconnected while the publish of its
\* disconnect notification is on its way to fail.
C14_Witness ==
    \E c \in Clients, o \in Clients :
        /\ c # o
        /\ conn[c] = "connected"
        /\ BagIn(Goroutine("sys/connect", ConnectMessage(c), "hang"), notes)
        /\ conn[o] = "none"
        /\ BagIn(Goroutine("sys/disconnect", DisconnectMessage(o), "error"), notes)

\* C15: once main has asked the server to shut down, the sweep runs no
\* more: no step of cleanExpiredCache takes an entry out of the cache.
C15_NoSweepAfterShutdown ==
    [][phase # "serving" => ~(CleanExpiredCache /\ msgCache' # msgCache)]_vars

\* C16: the timestamp stored for an origin identifier never decreases from
\* one cache write to the next, unless the write is made by the count-0
\* reset path.
C16_TimestampNeverRegresses ==
    [][\A u \in DOMAIN msgCache \cap DOMAIN msgCache' :
        msgCache'[u] < msgCache[u] =>
            \E c \in Clients : fr[c].pc = "reset" /\ fr'[c].ret = 93]_vars

C18_ResetOnlyOnExactZero ==
    [][\A c \in Clients :
        (fr[c].pc = "parse" /\ fr'[c].pc \in {"reset", "now"}) =>
            (fr'[c].pc = "reset" <=> CountIsZero(fr[c].inPayload))]_vars

\* C19: a publish the enrichment filter aborts with a serialization error
\* has written nothing to the cache: no step of its way through the dedup
\* hook changed the cache, and it left the hook at the topic test or at the
\* parse error, before any origin identifier was read.
C19_EnrichmentErrorLeavesCache ==
    [][\A c \in Clients :
        (fr'[c] # fr[c] /\ fr'[c].err = "MarshalError") =>
            /\ msgCache' = msgCache
            /\ fr[c].pc \in {"idle", "parse"}
            /\ fr'[c].ret \in {67, 75}
            /\ fr'[c].uuid = ""]_vars

\* A report on the dedup topic that is not JSON left the dedup hook at the
\* parse error and was aborted by the enrichment filter, with entries in the
\* cache.
C19_Witness ==
    \E c \in Clients :
        /\ fr[c].pc = "idle" /\ fr[c].err = "MarshalError"
        /\ fr[c].ret = 75
        /\ fr[c].topic = targetTopic
        /\ msgCache # EmptyMap

====
